---- MODULE Spec2Model ----
(***************************************************************************)
(* A model of MusicAttack.py: the IPU class (audio stream lifecycle, note  *)
(* quantization), calibration (create_config, mode), the configuration     *)
(* loader (load_config, validate_key_config), live-trigger mode (panel)    *)
(* and the session driver (main, main_menu).                               *)
(*                                                                         *)
(* One action is one step of the program between two inputs: an answer     *)
(* typed at a prompt, an audio frame returned by stream.read, a user       *)
(* interrupt (KeyboardInterrupt), or the outcome of opening the device.    *)
(***************************************************************************)
EXTENDS Integers, Sequences, FiniteSets, TLC

(***************************************************************************)
(* Bounds of the model.                                                    *)
(***************************************************************************)
\* Number of buttons read from the game's key file.  The program reads six
\* (swap1, raise1, up, down, left, right); the model takes the first NumKeys.
NumKeys == 2
\* Number of times the sounded frame may change during one calibration run
\* taken on its own.
MaxChanges == 2
\* Number of times the sounded frame may change during one whole session.
MaxSessionChanges == 2
\* Number of ticks recorded in one run of live-trigger mode.
MaxTicks == 5
\* Number of menu selections in one session.
MaxChoices == 2
\* Depth at which the re-entry of IPU.start is cut (the interpreter's
\* recursion limit, after which RecursionError is raised).
MaxDepth == 2
\* Resolution of the fixed-point numbers that stand for floats: the number
\* of units in one semitone.
UnitsPerSemitone == 100
\* Largest rounding error of one floating-point conversion that the
\* conversions are exercised with, in those units.
MaxFloatErr == 1

(***************************************************************************)
(* Program constants.                                                      *)
(***************************************************************************)
DEFAULT_FRAME_SIZE == 800
DEFAULT_FRAMES_PER_FFT == 1
DEFAULT_MIC_INDEX == 0
DEFAULT_SENSITIVITY == 200
NumPianoKeys == 88
BufLen == 15

NOTE_NAMES == <<"C", "C#", "D", "D#", "E", "F", "F#", "G", "G#", "A", "A#", "B">>

\* Python's None, as returned by validate_key_config when no key is invalid.
\* It is a value different from every string, the string "None" included.
PyNone == "<None>"

\* The value 0 that calculate_note stores in note_name for a frame that is
\* not loud enough.  (Written as a string: note_name otherwise holds strings.)
Silence == "0"

invalid_keys ==
    {"kp0", "kp1", "kp2", "kp3", "kp4", "kp5", "kp6", "kp7", "kp8", "kp9",
     "kp/", "kp*", "Unplugged Controller", "kp+", "kpenter"}

\* The six buttons get_panelattack_keys reads, in the order it stores them.
PA_BUTTONS == <<"swap1", "raise1", "up", "down", "left", "right">>

(***************************************************************************)
(* Python dicts: the keys in insertion order, and the value of each key.   *)
(***************************************************************************)
EmptyDict == [order |-> <<>>, val |-> <<>>]

DictHas(d, k) == k \in DOMAIN d.val

DictGet(d, k) == d.val[k]

\* d[k] = v: a new key is added last, a key already there keeps its place.
DictSet(d, k, v) ==
    IF DictHas(d, k)
    THEN [d EXCEPT !.val[k] = v]
    ELSE [order |-> Append(d.order, k), val |-> d.val @@ (k :> v)]

DictKeys(d) == d.order

DictValues(d) == [j \in 1..Len(d.order) |-> d.val[d.order[j]]]

DictLen(d) == Len(d.order)

RECURSIVE DictOf(_)
\* The dict written as the literal {k1: v1, k2: v2, ...}.
DictOf(pairs) ==
    IF pairs = <<>> THEN EmptyDict
    ELSE LET last == pairs[Len(pairs)]
         IN  DictSet(DictOf(SubSeq(pairs, 1, Len(pairs) - 1)), last[1], last[2])

(***************************************************************************)
(* Frequencies.  A frequency 440 * 2^(x/12) is represented by its exponent *)
(* x, its pitch above A4, and a semitone number that is not rounded yet by  *)
(* its value, both in fixed point with UnitsPerSemitone units to the        *)
(* semitone.  The result of a floating-point conversion is the exact result *)
(* with a rounding error e added, any of FloatErrs.                         *)
(***************************************************************************)
FloatErrs == -MaxFloatErr..MaxFloatErr

\* The rounding errors of double precision are far below one unit: at this
\* resolution they are none.
DoubleErrs == {0}

\* 440 * 2.0**((n-49)/12.0)
number_to_freq(n, e) == (n - 49) * UnitsPerSemitone + e

\* 12*np.log2(f/440.0) + 49
freq_to_number(f, e) == f + 49 * UnitsPerSemitone + e

\* int(x): the fraction is dropped.
Round_Truncate(x) == x \div UnitsPerSemitone

\* int(round(x)): the nearest integer.
Round(x) == (x + UnitsPerSemitone \div 2) \div UnitsPerSemitone

\* The octave number going up at each A.
note_to_note_name_OctaveAtA(n) ==
    NOTE_NAMES[((n - 4) % 12) + 1] \o ToString((n + 11) \div 12)

note_to_note_name(n) ==
    NOTE_NAMES[((n - 4) % 12) + 1] \o ToString((n + 8) \div 12)

piano_frequencies(e) == [k \in 1..NumPianoKeys |-> number_to_freq(k, e)]

(***************************************************************************)
(* Audio.  A captured frame is either all-zero or carries one piano key's  *)
(* frequency at some level; it is represented by that key and level.  Its  *)
(* response (what discrete_fourier_transform computes for it) is the level *)
(* at the key's frequency and 0 at the other candidates; the all-zero      *)
(* frame has response 0 at every candidate frequency.                      *)
(* With frames_per_fft = 1 the window holds exactly one frame.             *)
(***************************************************************************)
SilentFrame == [key |-> 0, level |-> 0]

Tone(key, level) == [key |-> key, level |-> level]

\* samples_per_fft = frame_size * frames_per_fft
samples_per_fft == DEFAULT_FRAME_SIZE * DEFAULT_FRAMES_PER_FFT

\* buf = None, the class attribute before start first runs: there is no
\* window.  It is written as the sequence of no frame, which no window that
\* start allocates equals.
NoWindow == <<>>

\* buf = np.zeros(samples_per_fft)
ZeroWindow == [f \in 1..DEFAULT_FRAMES_PER_FFT |-> SilentFrame]

\* The number of samples a window holds, each of its frames frame_size.
WindowSamples(window) == Len(window) * DEFAULT_FRAME_SIZE

\* The new frame appended without the oldest one shifted out.
PushFrame_NoShift(window, frame) == Append(window, frame)

\* Shift the buffer down and the new frame in.
PushFrame(window, frame) == Append(Tail(window), frame)

\* The response of the window at candidate frequency k.
discrete_fourier_transform(k, window) ==
    LET frame == window[Len(window)]
    IN  IF frame.key = k THEN frame.level ELSE 0

\* np.argmax: the first index holding the maximum.
ArgMax(response) ==
    LET top == CHOOSE m \in {response[k] : k \in DOMAIN response} :
                   \A k \in DOMAIN response : response[k] <= m
    IN  CHOOSE k \in DOMAIN response :
            response[k] = top /\ \A j \in 1..(k - 1) : response[j] # top

get_dominant_pitch(window, e) ==
    LET response == [k \in 1..NumPianoKeys |-> discrete_fourier_transform(k, window)]
        max_index == ArgMax(response)
    IN  [frequency |-> piano_frequencies(e)[max_index], amplitude |-> response[max_index]]

\* The gate with its comparison turned around.
TooQuiet_Inverted(amp, sens) == amp > sens

\* The amplitude gate of calculate_note.
TooQuiet(amp, sens) == amp < sens

\* calculate_note after the window is refilled: the new (note, note_name),
\* e1 the rounding error of the candidate frequency and e2 that of the
\* semitone number computed from it.
Quantize(window, sens, old_note, e1, e2) ==
    LET p == get_dominant_pitch(window, e1)
    IN  IF TooQuiet(p.amplitude, sens)
        THEN [amplitude |-> p.amplitude, note |-> old_note, note_name |-> Silence]
        ELSE LET n == freq_to_number(p.frequency, e2)
             IN  [amplitude |-> p.amplitude, note |-> Round(n),
                  note_name |-> note_to_note_name(Round(n))]

(***************************************************************************)
(* Calibration helpers.                                                    *)
(***************************************************************************)
RECURSIVE CountItems(_, _)
\* The loop of mode(): counts, a dict from item to its number of occurrences.
CountItems(ls, counts) ==
    IF ls = <<>> THEN counts
    ELSE LET item == Head(ls)
         IN  CountItems(Tail(ls),
                        IF DictHas(counts, item)
                        THEN DictSet(counts, item, DictGet(counts, item) + 1)
                        ELSE DictSet(counts, item, 1))

MaxOf(s) == CHOOSE m \in s : \A x \in s : x <= m

\* [key for key in counts.keys() if counts[key] == top]
KeysWithCount(counts, top) ==
    LET IsTop(k) == DictGet(counts, k) = top
    IN  SelectSeq(DictKeys(counts), IsTop)

\* The last of the keys holding the maximum instead of the first.
FirstOfMax_Last(counts) ==
    LET keys == KeysWithCount(counts, MaxOf({DictGet(counts, k) : k \in DOMAIN counts.val}))
    IN  keys[Len(keys)]

\* keys[0] of the keys holding max(counts.values()).
FirstOfMax(counts) ==
    KeysWithCount(counts, MaxOf({DictGet(counts, k) : k \in DOMAIN counts.val}))[1]

mode(ls) == FirstOfMax(CountItems(ls, EmptyDict))

\* The pass without its reset: a Silence sample leaves the index where it is.
RecordSample_NoReset(rec, idx, name) ==
    LET stored == [rec EXCEPT ![idx + 1] = name]
    IN  IF name = Silence
        THEN [rec |-> stored, i |-> idx]
        ELSE [rec |-> stored, i |-> idx + 1]

\* The pass without its test for Silence: every sample counts.
RecordSample_CountsSilence(rec, idx, name) ==
    [rec |-> [rec EXCEPT ![idx + 1] = name], i |-> idx + 1]

\* One pass of the while loop of create_config on the sample just taken:
\* the buffer and the collection index after it.
RecordSample(rec, idx, name) ==
    LET stored == [rec EXCEPT ![idx + 1] = name]
    IN  IF name = Silence
        THEN [rec |-> stored, i |-> 0]
        ELSE [rec |-> stored, i |-> idx + 1]

\* recorded_notes = [0,0,0,0,0,0,0,0,0,0,0,0,0,0,0]
EmptyBuffer ==
    <<Silence, Silence, Silence, Silence, Silence, Silence, Silence, Silence,
      Silence, Silence, Silence, Silence, Silence, Silence, Silence>>

(***************************************************************************)
(* Configuration helpers.                                                  *)
(***************************************************************************)
RECURSIVE validate_key_config(_)
\* The first invalid key among the values, None when there is none.
validate_key_config(values) ==
    IF values = <<>> THEN PyNone
    ELSE IF Head(values) \in invalid_keys THEN Head(values)
    ELSE validate_key_config(Tail(values))

\* load_config's test on the result of validate_key_config.
ReportsBadKey(badkey) == badkey # "None"

\* main's test on the result of validate_key_config.
RejectsKeys(badkey) == badkey # PyNone

\* The answers the program takes for yes at a (Y/n) prompt.
AcceptsDefaultYes(option) == option \in {"y", "yes", ""}

\* The answers the program takes for yes at the (y/N) prompt.
AcceptsDefaultNo(option) == option \in {"y", "yes"}

\* The pass without is_pressed: the key is sent on every tick of a bound note.
PanelBody_LevelTriggered(keys, name, pressed) ==
    IF DictHas(keys, name)
    THEN [sent |-> <<DictGet(keys, name)>>, is_pressed |-> TRUE]
    ELSE [sent |-> <<>>, is_pressed |-> FALSE]

\* The pass whose KeyError handler does not clear is_pressed.
PanelBody_NoRearm(keys, name, pressed) ==
    IF DictHas(keys, name)
    THEN [sent |-> IF ~pressed THEN <<DictGet(keys, name)>> ELSE <<>>,
          is_pressed |-> TRUE]
    ELSE [sent |-> <<>>, is_pressed |-> pressed]

\* One pass of the loop of panel on the note just computed.
PanelBody(keys, name, pressed) ==
    IF DictHas(keys, name)
    THEN [sent |-> IF ~pressed THEN <<DictGet(keys, name)>> ELSE <<>>,
          is_pressed |-> TRUE]
    ELSE [sent |-> <<>>, is_pressed |-> FALSE]

(***************************************************************************)
(* The environment's inputs.                                               *)
(***************************************************************************)
\* The piano keys the player sounds: A4, B4 and C4.
PlayedKeys == {49, 51, 40}

\* The piano keys quantization is exercised on: the lowest and the highest
\* key with the played ones.
QuantizedKeys == PlayedKeys \cup {1, NumPianoKeys}

\* Response levels of a sounded frame, below and above the default gate.
Levels == {100, 200, 300}

\* The frames of a mode taken on its own: silence, or a key played loud.
Sounds == {SilentFrame} \cup {Tone(k, 300) : k \in PlayedKeys}

\* The frames of a whole session: silence, A4 or B4 played loud.
SessionSounds == {SilentFrame, Tone(49, 300), Tone(51, 300)}

\* The frames quantization is exercised on, quiet ones included.
AllSounds == {SilentFrame} \cup {Tone(k, a) : k \in QuantizedKeys, a \in Levels}

\* The gates quantization is exercised with: none, the least, the defaults.
Sensitivities == {0, 1, DEFAULT_SENSITIVITY, 300}

\* What the user types at "Select a microphone #": a device number, or
\* nothing / not a number / an interrupt, for which set_microphone takes 0.
MicChoices == {0, 1}

\* The index the audio system reports for the default input device.
DeviceIndices == {0, 1}

Options == {"", "y", "n"}

\* Contents of the game's key file: the keyboard keys of the buttons.
DefaultKeys == <<"z", "x", "up", "down", "left", "right">>

GoodKeys == SubSeq(DefaultKeys, 1, NumKeys)

BadKeys == [GoodKeys EXCEPT ![1] = "kp0"]

KeyFiles ==
    { [present |-> FALSE, keys |-> <<>>],
      [present |-> TRUE, keys |-> GoodKeys],
      [present |-> TRUE, keys |-> BadKeys] }

\* Contents of config.json.
NoConfig == [kind |-> "none", mic_index |-> 0, keys |-> EmptyDict]

MissingFile == [kind |-> "missing", mic_index |-> 0, keys |-> EmptyDict]

MalformedFile == [kind |-> "malformed", mic_index |-> 0, keys |-> EmptyDict]

\* A well-formed file whose bound keys are all supported.
SupportedFile ==
    [kind |-> "ok", mic_index |-> 1, keys |-> DictOf(<<<<"A4", "z">>, <<"B4", "x">>>>)]

\* A well-formed file that binds a key the keyboard module does not support.
UnsupportedFile ==
    [kind |-> "ok", mic_index |-> 1, keys |-> DictOf(<<<<"A4", "z">>, <<"B4", "kp0">>>>)]

ConfigFiles == {MissingFile, MalformedFile, SupportedFile, UnsupportedFile}

NoVote == [buf |-> <<>>, run |-> <<>>, mode |-> ""]

(***************************************************************************)
(* State.                                                                  *)
(***************************************************************************)
VARIABLES
    pc,               \* where the program waits for its next input
    exit_reason,      \* why the program ended, "" while it runs
    keysfile,         \* the game's key file (keysV2.txt)
    configfile,       \* config.json
    defaultDev,       \* the default input device's index
    sounding,         \* the frame the player sounded last
    changes,          \* how many times the sounded frame has changed
    panelattack_keys, \* the dict read by get_panelattack_keys (its values)
    config,           \* main's / main_menu's config
    loader,           \* the caller of load_config: "main" or "menu"
    caller,           \* the caller of create_config: "load" or "menu"
    reported,         \* the key load_config reports as invalid at its prompt
    choices,          \* menu selections made so far
    new_config,       \* create_config: the config being built
    pos,              \* create_config: index into key_list
    i,                \* create_config: collection index of the slot
    recorded_notes,   \* create_config: the 15-entry buffer of the slot
    run,              \* the samples taken since the slot's last Silence
    vote,             \* the buffer, run and result of the binding just made
    is_pressed,       \* panel: is_pressed
    ticks,            \* panel: the note_name of each tick of this run
    fired,            \* panel: the keys sent on each tick of this run
    stream,           \* IPU.stream: "None", "open" or "closed"
    mic_index,        \* IPU.mic_index
    sensitivity,      \* IPU.sensitivity
    amplitude,        \* IPU.amplitude
    buf,              \* IPU.buf
    note,             \* IPU.note
    note_name,        \* IPU.note_name
    leaked,           \* streams opened, still open and no longer referenced
    stop_on_closed,   \* whether stop() was called on a closed stream
    depth,            \* IPU.start: frames suspended in set_sampling_rate
    ret               \* IPU.start: where the outermost call returns to

ctlVars == <<pc, exit_reason>>
envVars == <<keysfile, configfile, defaultDev>>
playVars == <<sounding, changes>>
mainVars == <<panelattack_keys, config, loader, caller, reported, choices>>
calVars == <<new_config, pos, i, recorded_notes, run, vote>>
panelVars == <<is_pressed, ticks, fired>>
noteVars == <<amplitude, buf, note, note_name>>
streamVars == <<stream, mic_index, sensitivity, leaked, stop_on_closed, depth, ret>>

vars ==
    <<ctlVars, envVars, playVars, mainVars, calVars, panelVars, noteVars, streamVars>>

\* IPU.__init__ and the class attributes it leaves.
IPUInit ==
    /\ stream = "None"
    /\ mic_index = DEFAULT_MIC_INDEX
    /\ sensitivity = DEFAULT_SENSITIVITY
    /\ amplitude = 0
    /\ buf = NoWindow
    /\ note = 0
    /\ note_name = ""
    /\ leaked = 0
    /\ stop_on_closed = FALSE
    /\ depth = 0
    /\ ret = ""

\* The locals of create_config, before it is entered and after it returns.
CalIdle ==
    /\ new_config = NoConfig
    /\ pos = 0
    /\ i = 0
    /\ recorded_notes = EmptyBuffer
    /\ run = <<>>
    /\ vote = NoVote

\* The locals of panel, before it is entered and after it returns.
PanelIdle ==
    /\ is_pressed = FALSE
    /\ ticks = <<>>
    /\ fired = <<>>

Init ==
    /\ pc = "main"
    /\ exit_reason = ""
    /\ keysfile \in KeyFiles
    /\ configfile \in ConfigFiles
    /\ defaultDev \in DeviceIndices
    /\ sounding = SilentFrame
    /\ changes = 0
    /\ panelattack_keys = <<>>
    /\ config = NoConfig
    /\ loader = ""
    /\ caller = ""
    /\ reported = ""
    /\ choices = 0
    /\ CalIdle
    /\ PanelIdle
    /\ IPUInit

(***************************************************************************)
(* Ending the program.                                                     *)
(***************************************************************************)
\* exit()
Exit(reason) == pc' = "exited" /\ exit_reason' = reason

\* An exception no handler catches: the interpreter prints it and ends.
Crash(reason) == pc' = "crashed" /\ exit_reason' = reason

(***************************************************************************)
(* IPU                                                                     *)
(***************************************************************************)
\* IPU.stop on the stream IPU.stream refers to.
StopStream ==
    /\ stream' = "closed"
    /\ stop_on_closed' = (stop_on_closed \/ stream = "closed")

\* IPU.start, from its entry to the device being opened: the stream, if any
\* was ever opened, is stopped; with mic_index 0 the default device is
\* selected and set_sampling_rate calls start again.
Start_Enter ==
    /\ pc = "start"
    /\ IF stream # "None" THEN StopStream ELSE UNCHANGED <<stream, stop_on_closed>>
    /\ IF mic_index = 0
       THEN /\ mic_index' = defaultDev
            /\ IF depth < MaxDepth
               THEN depth' = depth + 1 /\ UNCHANGED ctlVars
               ELSE depth' = depth /\ Crash("recursion")
       ELSE /\ pc' = "start_open"
            /\ UNCHANGED <<mic_index, depth, exit_reason>>
    /\ UNCHANGED <<sensitivity, leaked, ret>>
    /\ UNCHANGED <<envVars, playVars, mainVars, calVars, panelVars, noteVars>>

\* IPU.start, the try block: the window is zeroed and the device opened.  A
\* stream still open when IPU.stream is overwritten is referenced no more.
\* Returning, a suspended caller resumes at its own try block.
Start_Open ==
    /\ pc = "start_open"
    /\ buf' = ZeroWindow
    /\ \E opened \in BOOLEAN :
         IF opened
         THEN /\ leaked' = leaked + (IF stream = "open" THEN 1 ELSE 0)
              /\ stream' = "open"
              /\ IF depth > 0
                 THEN depth' = depth - 1 /\ UNCHANGED <<pc, ret>>
                 ELSE depth' = depth /\ pc' = ret /\ ret' = ""
              /\ UNCHANGED exit_reason
         ELSE /\ Exit("device_error")
              /\ UNCHANGED <<leaked, stream, depth, ret>>
    /\ UNCHANGED <<mic_index, sensitivity, stop_on_closed>>
    /\ UNCHANGED <<amplitude, note, note_name>>
    /\ UNCHANGED <<envVars, playVars, mainVars, calVars, panelVars>>

\* The player sounds a frame of S, changing it at most limit times.
Hear(S, limit, frame) ==
    /\ frame \in S
    /\ frame # sounding => changes < limit
    /\ sounding' = frame
    /\ changes' = IF frame # sounding THEN changes + 1 ELSE changes

\* IPU.calculate_note on the frame stream.read returns, its two conversions
\* made with rounding errors of errs.
CalculateNoteWith(frame, errs) ==
    IF stream = "None"
    THEN UNCHANGED noteVars
    ELSE \E e1 \in errs, e2 \in errs :
             LET window == PushFrame(buf, frame)
                 q == Quantize(window, sensitivity, note, e1, e2)
             IN  /\ buf' = window
                 /\ amplitude' = q.amplitude
                 /\ note' = q.note
                 /\ note_name' = q.note_name

CalculateNote(frame) == CalculateNoteWith(frame, DoubleErrs)

(***************************************************************************)
(* main and load_config                                                    *)
(***************************************************************************)
\* main, up to its call of load_config: the key file is read and checked.
Main ==
    /\ pc = "main"
    /\ IF ~keysfile.present
       THEN Exit("keys_missing") /\ UNCHANGED <<panelattack_keys, loader>>
       ELSE /\ panelattack_keys' = keysfile.keys
            /\ IF RejectsKeys(validate_key_config(keysfile.keys))
               THEN Exit("keys_invalid") /\ UNCHANGED loader
               ELSE pc' = "load_config" /\ loader' = "main" /\ UNCHANGED exit_reason
    /\ UNCHANGED <<config, caller, reported, choices>>
    /\ UNCHANGED <<envVars, playVars, calVars, panelVars, noteVars, streamVars>>

\* The try statement with a missing file handled by the handler of a
\* malformed one.
LoadBranch_MissingFatal(file) ==
    CASE file.kind \in {"missing", "malformed"} -> "JSONDecodeError"
      [] OTHER -> "loaded"

\* The try statement of load_config: which of its branches a file takes.
LoadBranch(file) ==
    CASE file.kind = "missing" -> "FileNotFoundError"
      [] file.kind = "malformed" -> "JSONDecodeError"
      [] OTHER -> "loaded"

\* load_config, up to its prompt or its exit.
LoadConfig ==
    /\ pc = "load_config"
    /\ CASE LoadBranch(configfile) = "FileNotFoundError" ->
              /\ pc' = "prompt_missing"
              /\ UNCHANGED <<exit_reason, reported>>
         [] LoadBranch(configfile) = "JSONDecodeError" ->
              /\ Exit("config_malformed")
              /\ UNCHANGED reported
         [] OTHER ->
              LET badkey == validate_key_config(DictValues(configfile.keys))
              IN  IF ReportsBadKey(badkey)
                  THEN /\ pc' = "prompt_badkey"
                       /\ reported' = badkey
                       /\ UNCHANGED exit_reason
                  ELSE \* load_config returns None, which its caller subscripts
                       /\ Crash("type_error")
                       /\ UNCHANGED reported
    /\ UNCHANGED <<panelattack_keys, config, loader, caller, choices>>
    /\ UNCHANGED <<envVars, playVars, calVars, panelVars, noteVars, streamVars>>

\* The answer to "Create one now? (Y/n)" or "Recreate it now? (Y/n)": on yes
\* create_config is entered, which asks for the microphone.
PromptRecreate ==
    /\ pc \in {"prompt_missing", "prompt_badkey"}
    /\ \E option \in Options :
         IF AcceptsDefaultYes(option)
         THEN pc' = "cc_mic" /\ caller' = "load" /\ UNCHANGED exit_reason
         ELSE Exit("declined") /\ UNCHANGED caller
    /\ reported' = ""
    /\ UNCHANGED <<panelattack_keys, config, loader, choices>>
    /\ UNCHANGED <<envVars, playVars, calVars, panelVars, noteVars, streamVars>>

\* input() raises at the prompt of load_config (end of input, an interrupt).
PromptFails ==
    /\ pc \in {"prompt_missing", "prompt_badkey"}
    /\ Exit("input_error")
    /\ reported' = ""
    /\ UNCHANGED <<panelattack_keys, config, loader, caller, choices>>
    /\ UNCHANGED <<envVars, playVars, calVars, panelVars, noteVars, streamVars>>

(***************************************************************************)
(* create_config                                                           *)
(***************************************************************************)
\* create_config, from set_microphone's answer to its call of ipu.start.
\* (The slot's buffer and index, set when start returns, are set here.)
CC_Begin ==
    /\ pc = "cc_mic"
    /\ \E m \in MicChoices :
         /\ mic_index' = m
         /\ new_config' = [kind |-> "ok", mic_index |-> m, keys |-> EmptyDict]
    /\ pos' = 0
    /\ i' = 0
    /\ recorded_notes' = EmptyBuffer
    /\ run' = <<>>
    /\ vote' = NoVote
    /\ pc' = "start"
    /\ ret' = "cc_loop"
    /\ depth' = 0
    /\ UNCHANGED <<exit_reason, stream, sensitivity, leaked, stop_on_closed>>
    /\ UNCHANGED <<envVars, playVars, mainVars, panelVars, noteVars>>

\* One tick of the calibration loop: a frame is read and its note recorded;
\* when that fills the buffer the slot is bound and the next slot begins, or
\* after the last slot "Save keybindings?" is asked.
CC_TickOn(S, limit) ==
    /\ pc = "cc_loop"
    /\ \E frame \in S : Hear(S, limit, frame) /\ CalculateNote(frame)
    /\ LET r == RecordSample(recorded_notes, i, note_name')
           sofar == IF note_name' = Silence THEN <<>> ELSE Append(run, note_name')
       IN  IF r.i < Len(r.rec)
           THEN /\ recorded_notes' = r.rec
                /\ i' = r.i
                /\ run' = sofar
                /\ vote' = NoVote
                /\ UNCHANGED <<new_config, pos, pc>>
           ELSE LET note_mode == mode(r.rec)
                IN  /\ new_config' =
                          [new_config EXCEPT
                             !.keys = DictSet(@, note_mode, panelattack_keys[pos + 1])]
                    /\ pos' = pos + 1
                    /\ vote' = [buf |-> r.rec, run |-> sofar, mode |-> note_mode]
                    /\ IF pos + 1 < Len(panelattack_keys)
                       THEN /\ recorded_notes' = EmptyBuffer
                            /\ i' = 0
                            /\ run' = <<>>
                            /\ UNCHANGED pc
                       ELSE /\ recorded_notes' = r.rec
                            /\ i' = r.i
                            /\ run' = sofar
                            /\ pc' = "cc_save"
    /\ UNCHANGED <<exit_reason, envVars, mainVars, panelVars, streamVars>>

CC_Tick == CC_TickOn(SessionSounds, MaxSessionChanges)

\* A user interrupt during calibration: create_config and its callers have
\* no handler for KeyboardInterrupt.
CC_Interrupt ==
    /\ pc \in {"cc_loop", "cc_save"}
    /\ Crash("interrupt")
    /\ UNCHANGED <<envVars, playVars, mainVars, calVars, panelVars, noteVars, streamVars>>

\* The answer to "Save keybindings? (Y/n)", ipu.stop and the return: to
\* load_config and from it to main (which sets the microphone index, stopping
\* the stream it finds, and enters the menu) or to the menu; or to the menu's
\* Reconfigure Input, which drops the result and calls load_config.
CC_Save ==
    /\ pc = "cc_save"
    /\ \E option \in Options :
         configfile' = IF AcceptsDefaultYes(option) THEN new_config ELSE configfile
    /\ IF caller = "load"
       THEN /\ config' = new_config
            /\ pc' = "menu"
            /\ loader' = ""
            /\ caller' = ""
            /\ IF loader = "main"
               THEN /\ mic_index' = new_config.mic_index
                    /\ stream' = "closed"
                    /\ stop_on_closed' = TRUE
               ELSE StopStream /\ UNCHANGED mic_index
       ELSE /\ pc' = "load_config"
            /\ loader' = "menu"
            /\ caller' = ""
            /\ StopStream
            /\ UNCHANGED <<config, mic_index>>
    /\ new_config' = NoConfig
    /\ pos' = 0
    /\ i' = 0
    /\ recorded_notes' = EmptyBuffer
    /\ run' = <<>>
    /\ vote' = NoVote
    /\ UNCHANGED <<exit_reason, keysfile, defaultDev>>
    /\ UNCHANGED <<panelattack_keys, reported, choices>>
    /\ UNCHANGED <<sensitivity, leaked, depth, ret>>
    /\ UNCHANGED <<playVars, panelVars, noteVars>>

(***************************************************************************)
(* main_menu                                                               *)
(***************************************************************************)
AtMenu == pc = "menu" /\ choices < MaxChoices

\* 1. Run: panel is entered and calls ipu.start.
MenuRun ==
    /\ AtMenu
    /\ choices' = choices + 1
    /\ is_pressed' = FALSE
    /\ ticks' = <<>>
    /\ fired' = <<>>
    /\ pc' = "start"
    /\ ret' = "panel_loop"
    /\ depth' = 0
    /\ UNCHANGED <<exit_reason, panelattack_keys, config, loader, caller, reported>>
    /\ UNCHANGED <<stream, mic_index, sensitivity, leaked, stop_on_closed>>
    /\ UNCHANGED <<envVars, playVars, calVars, noteVars>>

\* print_readable_panelattack_config subscripts the i-th note of the config
\* for each of the buttons: IndexError when the config binds fewer notes.
PrintableConfig(pa_keys, cfg) == Len(pa_keys) <= DictLen(cfg.keys)

\* 2. Reconfigure Input, up to "Are you sure you want to overwrite your
\* settings?": the key file is read again and the bindings are printed.
MenuReconfigure ==
    /\ AtMenu
    /\ choices' = choices + 1
    /\ IF ~keysfile.present
       THEN Exit("keys_missing") /\ UNCHANGED panelattack_keys
       ELSE /\ panelattack_keys' = keysfile.keys
            /\ IF PrintableConfig(keysfile.keys, config)
               THEN pc' = "prompt_verify" /\ UNCHANGED exit_reason
               ELSE Crash("index_error")
    /\ UNCHANGED <<config, loader, caller, reported>>
    /\ UNCHANGED <<envVars, playVars, calVars, panelVars, noteVars, streamVars>>

\* The answer to "Are you sure you want to overwrite your settings? (y/N)".
Verify ==
    /\ pc = "prompt_verify"
    /\ \E verify \in Options :
         IF AcceptsDefaultNo(verify)
         THEN pc' = "cc_mic" /\ caller' = "menu"
         ELSE pc' = "menu" /\ UNCHANGED caller
    /\ UNCHANGED <<exit_reason, panelattack_keys, config, loader, reported, choices>>
    /\ UNCHANGED <<envVars, playVars, calVars, panelVars, noteVars, streamVars>>

\* 3. Test Microphone: test is entered, which asks for the microphone.
MenuTest ==
    /\ AtMenu
    /\ choices' = choices + 1
    /\ pc' = "test_mic"
    /\ UNCHANGED <<exit_reason, panelattack_keys, config, loader, caller, reported>>
    /\ UNCHANGED <<envVars, playVars, calVars, panelVars, noteVars, streamVars>>

\* 0. Exit.
MenuExit ==
    /\ AtMenu
    /\ choices' = choices + 1
    /\ Exit("menu_exit")
    /\ UNCHANGED <<panelattack_keys, config, loader, caller, reported>>
    /\ UNCHANGED <<envVars, playVars, calVars, panelVars, noteVars, streamVars>>

\* Anything else: no branch is taken and the menu is printed again.
MenuInvalid ==
    /\ AtMenu
    /\ choices' = choices + 1
    /\ UNCHANGED <<ctlVars, panelattack_keys, config, loader, caller, reported>>
    /\ UNCHANGED <<envVars, playVars, calVars, panelVars, noteVars, streamVars>>

\* The user rebinds the game's keys (or the file is removed) while the menu
\* waits: the file is read only at startup and by Reconfigure Input.
EditKeysFile ==
    /\ AtMenu
    /\ \E f \in KeyFiles : f # keysfile /\ keysfile' = f
    /\ UNCHANGED <<configfile, defaultDev>>
    /\ UNCHANGED <<ctlVars, playVars, mainVars, calVars, panelVars, noteVars, streamVars>>

(***************************************************************************)
(* panel                                                                   *)
(***************************************************************************)
\* stream.is_active(): the blocking stream is active from open to stop.
IsActive == stream = "open"

\* One tick of live-trigger mode.
PanelTickOn(S, limit) ==
    /\ pc = "panel_loop"
    /\ IsActive
    /\ Len(ticks) < MaxTicks
    /\ \E frame \in S : Hear(S, limit, frame) /\ CalculateNote(frame)
    /\ LET r == PanelBody(config.keys, note_name', is_pressed)
       IN  /\ is_pressed' = r.is_pressed
           /\ ticks' = Append(ticks, note_name')
           /\ fired' = Append(fired, r.sent)
    /\ UNCHANGED <<ctlVars, envVars, mainVars, calVars, streamVars>>

PanelTick == PanelTickOn(SessionSounds, MaxSessionChanges)

\* A user interrupt in the loop of panel: ipu.stop, back to the menu.
PanelInterrupt ==
    /\ pc = "panel_loop"
    /\ StopStream
    /\ pc' = "menu"
    /\ is_pressed' = FALSE
    /\ ticks' = <<>>
    /\ fired' = <<>>
    /\ UNCHANGED <<exit_reason, mic_index, sensitivity, leaked, depth, ret>>
    /\ UNCHANGED <<envVars, playVars, mainVars, calVars, noteVars>>

(***************************************************************************)
(* IPU.test                                                                *)
(***************************************************************************)
\* test, from set_microphone's answer to its call of start.
TestBegin ==
    /\ pc = "test_mic"
    /\ \E m \in MicChoices : mic_index' = m
    /\ pc' = "start"
    /\ ret' = "test_loop"
    /\ depth' = 0
    /\ UNCHANGED <<exit_reason, stream, sensitivity, leaked, stop_on_closed>>
    /\ UNCHANGED <<envVars, playVars, mainVars, calVars, panelVars, noteVars>>

\* One tick of the microphone test.
TestTick ==
    /\ pc = "test_loop"
    /\ IsActive
    /\ \E frame \in SessionSounds :
         Hear(SessionSounds, MaxSessionChanges, frame) /\ CalculateNote(frame)
    /\ UNCHANGED <<ctlVars, envVars, mainVars, calVars, panelVars, streamVars>>

\* A user interrupt in the loop of test: break, then stop.
TestInterrupt ==
    /\ pc = "test_loop"
    /\ StopStream
    /\ pc' = "menu"
    /\ UNCHANGED <<exit_reason, mic_index, sensitivity, leaked, depth, ret>>
    /\ UNCHANGED <<envVars, playVars, mainVars, calVars, panelVars, noteVars>>

(***************************************************************************)
(* The session.                                                            *)
(***************************************************************************)
Next ==
    \/ Main
    \/ LoadConfig
    \/ PromptRecreate
    \/ PromptFails
    \/ CC_Begin
    \/ CC_Tick
    \/ CC_Interrupt
    \/ CC_Save
    \/ Start_Enter
    \/ Start_Open
    \/ MenuRun
    \/ MenuReconfigure
    \/ Verify
    \/ MenuTest
    \/ MenuExit
    \/ MenuInvalid
    \/ EditKeysFile
    \/ PanelTick
    \/ PanelInterrupt
    \/ TestBegin
    \/ TestTick
    \/ TestInterrupt

Spec == Init /\ [][Next]_vars

(***************************************************************************)
(* Calibration taken on its own: create_config as load_config enters it at *)
(* startup when config.json is missing, with every frame of Sounds.        *)
(***************************************************************************)
InitCalib ==
    /\ pc = "cc_mic"
    /\ exit_reason = ""
    /\ keysfile = [present |-> TRUE, keys |-> GoodKeys]
    /\ configfile = MissingFile
    /\ defaultDev = 1
    /\ sounding \in Sounds
    /\ changes = 0
    /\ panelattack_keys = GoodKeys
    /\ config = NoConfig
    /\ loader = "main"
    /\ caller = "load"
    /\ reported = ""
    /\ choices = 0
    /\ CalIdle
    /\ PanelIdle
    /\ IPUInit

CalibTick == CC_TickOn(Sounds, MaxChanges)

NextCalib ==
    \/ CC_Begin
    \/ Start_Enter
    \/ Start_Open
    \/ CalibTick
    \/ CC_Save

SpecCalib == InitCalib /\ [][NextCalib]_vars

\* Calibration for its progress: the player is silent when it starts and
\* sounds Silence, A4 or B4.
InitCalibLive == InitCalib /\ sounding = SilentFrame

CalibLiveTick == CC_TickOn(SessionSounds, MaxChanges)

NextCalibLive ==
    \/ CC_Begin
    \/ Start_Enter
    \/ Start_Open
    \/ CalibLiveTick
    \/ CC_Save

\* ENABLED <<CalibLiveTick>>_vars written out: in the loop a tick changes the
\* state unless the player stays silent (no change of sound is left to them)
\* and the last tick already was a Silence tick of a slot with no sample.
TickCanAct ==
    /\ pc = "cc_loop"
    /\ \/ sounding # SilentFrame
       \/ changes < MaxChanges
       \/ i # 0
       \/ recorded_notes[1] # Silence
       \/ run # <<>>
       \/ vote # NoVote
       \/ note_name # Silence
       \/ amplitude # 0
       \/ buf # ZeroWindow

\* Weak fairness of the tick, WF_vars(CalibLiveTick), with its enabling
\* condition written out.
TickFairness == []<>(~TickCanAct) \/ []<><<CalibLiveTick>>_vars

\* Neither start nor the calibration loop waits for the user: start runs to
\* its end, and the loop takes its next tick as soon as the open stream
\* delivers the next frame.
SpecCalibLive ==
    /\ InitCalibLive
    /\ [][NextCalibLive]_vars
    /\ WF_vars(Start_Enter)
    /\ WF_vars(Start_Open)
    /\ TickFairness

(***************************************************************************)
(* Live-trigger mode taken on its own: Run chosen at the menu after a      *)
(* startup calibration that bound A4 and B4, with every frame of Sounds.   *)
(***************************************************************************)
LiveConfig ==
    [kind |-> "ok", mic_index |-> 1,
     keys |-> DictOf(<<<<"A4", GoodKeys[1]>>, <<"B4", GoodKeys[2]>>>>)]

InitPanel ==
    /\ pc = "menu"
    /\ exit_reason = ""
    /\ keysfile = [present |-> TRUE, keys |-> GoodKeys]
    /\ configfile = MissingFile
    /\ defaultDev = 1
    /\ sounding = Tone(51, 300)
    /\ changes = 0
    /\ panelattack_keys = GoodKeys
    /\ config = LiveConfig
    /\ loader = ""
    /\ caller = ""
    /\ reported = ""
    /\ choices = 0
    /\ CalIdle
    /\ PanelIdle
    /\ stream = "closed"
    /\ mic_index = 1
    /\ sensitivity = DEFAULT_SENSITIVITY
    /\ amplitude = 300
    /\ buf = <<Tone(51, 300)>>
    /\ note = 51
    /\ note_name = "B4"
    /\ leaked = 0
    /\ stop_on_closed = TRUE
    /\ depth = 0
    /\ ret = ""

LiveTick == PanelTickOn(Sounds, MaxTicks * MaxChoices)

NextPanel ==
    \/ MenuRun
    \/ Start_Enter
    \/ Start_Open
    \/ LiveTick
    \/ PanelInterrupt

SpecPanel == InitPanel /\ [][NextPanel]_vars

(***************************************************************************)
(* Quantization taken on its own: calculate_note on an open stream, for    *)
(* every sensitivity of Sensitivities and every frame of AllSounds.        *)
(***************************************************************************)
InitQuantize ==
    /\ pc = "quantize"
    /\ exit_reason = ""
    /\ keysfile = [present |-> TRUE, keys |-> GoodKeys]
    /\ configfile = MissingFile
    /\ defaultDev = 1
    /\ sounding = SilentFrame
    /\ changes = 0
    /\ panelattack_keys = <<>>
    /\ config = NoConfig
    /\ loader = ""
    /\ caller = ""
    /\ reported = ""
    /\ choices = 0
    /\ CalIdle
    /\ PanelIdle
    /\ stream = "open"
    /\ mic_index = 1
    /\ sensitivity \in Sensitivities
    /\ amplitude = 0
    /\ buf = ZeroWindow
    /\ note = 0
    /\ note_name = ""
    /\ leaked = 0
    /\ stop_on_closed = FALSE
    /\ depth = 0
    /\ ret = ""

QuantizeStep ==
    /\ pc \in {"quantize", "quantized"}
    /\ pc' = "quantized"
    /\ \E frame \in AllSounds : sounding' = frame /\ CalculateNote(frame)
    /\ UNCHANGED <<exit_reason, changes>>
    /\ UNCHANGED <<envVars, mainVars, calVars, panelVars, streamVars>>

NextQuantize == QuantizeStep

SpecQuantize == InitQuantize /\ [][NextQuantize]_vars

(***************************************************************************)
(* The conversions taken on their own: calculate_note on an open stream at *)
(* the default sensitivity, for a loud frame of each of the 88 keys and for *)
(* every rounding error of FloatErrs in its two conversions.                *)
(***************************************************************************)
KeyboardSounds == {SilentFrame} \cup {Tone(k, 300) : k \in 1..NumPianoKeys}

InitKeyboard == InitQuantize /\ sensitivity = DEFAULT_SENSITIVITY

KeyboardStep ==
    /\ pc \in {"quantize", "quantized"}
    /\ pc' = "quantized"
    /\ \E frame \in KeyboardSounds :
         sounding' = frame /\ CalculateNoteWith(frame, FloatErrs)
    /\ UNCHANGED <<exit_reason, changes>>
    /\ UNCHANGED <<envVars, mainVars, calVars, panelVars, streamVars>>

NextKeyboard == KeyboardStep

SpecKeyboard == InitKeyboard /\ [][NextKeyboard]_vars

(***************************************************************************)
(* Properties of live-trigger mode (panel), under SpecPanel.                *)
(***************************************************************************)
\* C1: on every tick whose note is bound and differs from the held note (the
\* first tick of the run, a tick after Silence or after an unbound note, or a
\* tick right after another bound note), exactly one key is sent, the key
\* bound to the new note.
C1_NewNoteFiresOnce ==
    \A t \in 1..Len(ticks) :
        (DictHas(config.keys, ticks[t]) /\ (t = 1 \/ ticks[t - 1] # ticks[t]))
            => fired[t] = <<DictGet(config.keys, ticks[t])>>

\* C2: every tick sends at most one key, and a tick whose symbol is Silence
\* or equals the symbol of the tick before it sends none.
C2_DispatchOnlyOnEdge ==
    \A t \in 1..Len(ticks) :
        /\ Len(fired[t]) <= 1
        /\ (ticks[t] = Silence \/ (t > 1 /\ ticks[t] = ticks[t - 1]))
              => fired[t] = <<>>

\* A4 sustained over two ticks: sent on the first, not on the second.
C2_Witness ==
    /\ Len(ticks) >= 2
    /\ ticks[1] = "A4" /\ ticks[2] = "A4"
    /\ fired[1] = <<DictGet(config.keys, "A4")>>
    /\ fired[2] = <<>>

\* C3: a Silence tick sends nothing, and a tick with a bound note right after
\* a Silence tick sends that note's key once, also when the same note was
\* held before the silence: the ticks A4, A4, A4, Silence, A4 send the key of
\* A4 exactly twice, on the first and on the last of them.
C3_SilenceRearms ==
    /\ \A t \in 1..Len(ticks) :
          /\ ticks[t] = Silence => fired[t] = <<>>
          /\ (t > 1 /\ ticks[t - 1] = Silence /\ DictHas(config.keys, ticks[t]))
                => fired[t] = <<DictGet(config.keys, ticks[t])>>
    /\ ticks = <<"A4", "A4", "A4", Silence, "A4">>
          => fired = <<<<DictGet(config.keys, "A4")>>, <<>>, <<>>, <<>>,
                       <<DictGet(config.keys, "A4")>>>>

C3_Witness ==
    /\ ticks = <<"A4", "A4", "A4", Silence, "A4">>
    /\ fired = <<<<"z">>, <<>>, <<>>, <<>>, <<"z">>>>

(***************************************************************************)
(* Properties of calibration (create_config, mode), under SpecCalib.        *)
(***************************************************************************)
\* C4: while a slot is collected, the index i is the number of samples taken
\* since the slot's last Silence (0 right after a Silence), those samples are
\* the first i entries of the buffer and none is Silence; the slot is bound
\* exactly when that unbroken run reaches 15, and the buffer voted on is that
\* run: nothing sampled before the last Silence is in it.
C4_VoteOnUnbrokenRun ==
    /\ pc = "cc_loop" =>
          /\ i = Len(run)
          /\ i < BufLen
          /\ SubSeq(recorded_notes, 1, i) = run
          /\ \A j \in 1..Len(run) : run[j] # Silence
          /\ (note_name = Silence => i = 0)
    /\ vote # NoVote =>
          /\ vote.buf = vote.run
          /\ Len(vote.buf) = BufLen
          /\ \A j \in 1..BufLen : vote.buf[j] # Silence

\* The first slot bound to A4 after the played sound changed twice: a sound,
\* then Silence (the only change after which fifteen A4 fill the buffer).
C4_Witness ==
    /\ vote # NoVote
    /\ pos = 1
    /\ changes = 2
    /\ \A j \in 1..BufLen : vote.buf[j] = "A4"

\* C5: the note bound to a slot occurs in the slot's buffer at least as often
\* as every other value of it, and among the values that occur as often it is
\* the one whose first occurrence is the earliest; it is bound to the slot's
\* key.
C5_ModeIsFirstMostFrequent ==
    vote # NoVote =>
        LET b == vote.buf
            Count(v) == Cardinality({j \in 1..Len(b) : b[j] = v})
            First(v) == CHOOSE j \in 1..Len(b) :
                            b[j] = v /\ \A k \in 1..(j - 1) : b[k] # v
            values == {b[j] : j \in 1..Len(b)}
        IN  /\ vote.mode \in values
            /\ \A v \in values : Count(v) <= Count(vote.mode)
            /\ \A v \in values :
                  Count(v) = Count(vote.mode) => First(vote.mode) <= First(v)
            /\ DictHas(new_config.keys, vote.mode)
            /\ DictGet(new_config.keys, vote.mode) = panelattack_keys[pos]

\* Seven A4, seven B4 and one C4: the tie goes to A4.
C5_Witness ==
    /\ vote # NoVote
    /\ vote.buf = <<"A4", "A4", "A4", "A4", "A4", "A4", "A4",
                    "B4", "B4", "B4", "B4", "B4", "B4", "B4", "C4">>
    /\ vote.mode = "A4"

(***************************************************************************)
(* Properties of the session, under Spec.                                  *)
(***************************************************************************)
\* C6: whenever control is outside panel, create_config and test (at the
\* menu, in load_config or at its prompts, or after the program has ended),
\* the stream is not open.
C6_StreamStoppedOutsideModes ==
    pc \notin {"start", "start_open", "cc_loop", "cc_save", "panel_loop", "test_loop"}
        => stream # "open"

\* C7: load_config reports an invalid key, offering to recreate the file,
\* only when some key bound in config.json is an unsupported one.
C7_ReportOnlyUnsupportedKey ==
    pc = "prompt_badkey" =>
        \E k \in DOMAIN configfile.keys.val : configfile.keys.val[k] \in invalid_keys

C9_NoUnsupportedKeyBound ==
    /\ \A k \in DOMAIN new_config.keys.val : new_config.keys.val[k] \notin invalid_keys
    /\ \A k \in DOMAIN config.keys.val : config.keys.val[k] \notin invalid_keys

(***************************************************************************)
(* Properties of quantization (calculate_note), under SpecQuantize.        *)
(***************************************************************************)
\* C10: for every sensitivity >= 0, calculate_note on an all-zero window
\* leaves Silence in note_name.
C10_SilentWindowIsSilence ==
    (pc = "quantized" /\ buf = ZeroWindow /\ sensitivity >= 0) => note_name = Silence

\* C10 as amended: for every sensitivity > 0, calculate_note on an all-zero
\* window leaves Silence in note_name.
C10_SilentWindowIsSilenceAboveZero ==
    (pc = "quantized" /\ buf = ZeroWindow /\ sensitivity > 0) => note_name = Silence

\* The least gate above zero, on the all-zero window.
C10_Witness ==
    /\ pc = "quantized"
    /\ buf = ZeroWindow
    /\ amplitude = 0
    /\ sensitivity = 1
    /\ note_name = Silence

(***************************************************************************)
(* Properties of the audio window (start, calculate_note), under Spec.     *)
(***************************************************************************)
\* C11: in every reachable state the window holds exactly samples_per_fft
\* samples.
C11_WindowAlwaysFull ==
    WindowSamples(buf) = samples_per_fft

\* C11 as amended: in every state in which start has opened a stream, the
\* window holds exactly samples_per_fft samples, whatever number of frames was
\* pushed; and when start has returned to live-trigger mode and no frame has
\* arrived yet, the window is all-zero.
C11_WindowFullOnceStarted ==
    /\ stream # "None" => WindowSamples(buf) = samples_per_fft
    /\ (pc = "panel_loop" /\ ticks = <<>>) => buf = ZeroWindow

\* Live-trigger mode entered after a calibration, two frames pushed.
C11_Witness ==
    /\ pc = "panel_loop"
    /\ Len(ticks) = 2
    /\ stream = "open"
    /\ buf # ZeroWindow
    /\ WindowSamples(buf) = samples_per_fft

(***************************************************************************)
(* Progress of calibration (create_config), under SpecCalibLive.           *)
(***************************************************************************)
\* C12: the loop leaves a slot only by binding it, to the slot's key in the
\* order of the key list, and only on a run of 15 samples without Silence, so
\* a slot whose samples never hold such a run is never bound nor passed; and
\* there is no timeout: once the loop runs, if from some tick on every sample
\* is a note, every slot is bound and create_config comes to its last prompt.
C12_CalibrationCompletesOnCleanRuns ==
    /\ [][(pc = "cc_loop" /\ (pos' # pos \/ pc' # "cc_loop")) =>
             /\ pos' = pos + 1
             /\ pc' = (IF pos' < Len(panelattack_keys) THEN "cc_loop" ELSE "cc_save")
             /\ Len(vote'.run) = BufLen
             /\ \A j \in 1..BufLen : vote'.run[j] # Silence
             /\ DictGet(new_config'.keys, vote'.mode) = panelattack_keys[pos']
         ]_vars
    /\ (<>(pc = "cc_loop") /\ <>[](sounding # SilentFrame))
          => <>(pc = "cc_save" /\ pos = Len(panelattack_keys))

\* Both slots bound in order after at least one Silence held the loop back.
C12_Witness ==
    /\ pc = "cc_save"
    /\ pos = Len(panelattack_keys)
    /\ changes >= 2
    /\ DictKeys(new_config.keys) = <<"A4", "B4">>
    /\ DictGet(new_config.keys, "A4") = panelattack_keys[1]
    /\ DictGet(new_config.keys, "B4") = panelattack_keys[2]

(***************************************************************************)
(* Properties of the conversions, under SpecKeyboard.                      *)
(***************************************************************************)
\* C13: the name calculate_note gives to the key it hears is the key's
\* standard piano name: counting up from key 1, which is A0, the pitch class
\* goes round C, C#, ..., B and the octave number goes up by one at each C;
\* so key 49 is A4, key 88 is C8, and no two of the 88 keys have one name.
C13_StandardPianoNames ==
    LET std[n \in 1..NumPianoKeys] ==
            IF n = 1 THEN [class |-> 10, octave |-> 0]
            ELSE LET prev == std[n - 1]
                     nxt == (prev.class % 12) + 1
                 IN  [class |-> nxt,
                      octave |-> prev.octave + (IF nxt = 1 THEN 1 ELSE 0)]
        StdName(n) == NOTE_NAMES[std[n].class] \o ToString(std[n].octave)
    IN  /\ (pc = "quantized" /\ sounding # SilentFrame)
              => note_name = StdName(sounding.key)
        /\ note \in 1..NumPianoKeys =>
              /\ note_to_note_name(note) = StdName(note)
              /\ \A m \in 1..NumPianoKeys :
                    m # note => note_to_note_name(m) # note_to_note_name(note)
        /\ note_to_note_name(1) = "A0"
        /\ note_to_note_name(49) = "A4"
        /\ note_to_note_name(NumPianoKeys) = "C8"

\* Middle C, key 40, heard and named C4.
C13_Witness ==
    /\ pc = "quantized"
    /\ sounding = Tone(40, 300)
    /\ note = 40
    /\ note_name = "C4"

C15_StartNotReenteredWithoutBound ==
    /\ depth < MaxDepth
    /\ exit_reason # "recursion"

\* C16: no stream that was opened is still open while IPU.stream refers to
\* another: start never opens a stream over one that is open, so at most one
\* stream is open at any time, the one IPU.stream refers to.
C16_NoStreamLeaked == leaked = 0

\* C17: stop is only called on a stream that is open: stop_stream and close
\* are never called on a stream that stop has stopped and closed before.
C17_StopOnlyOnOpenStream == stop_on_closed = FALSE

(***************************************************************************)
(* Properties of the mapping calibration makes, under SpecCalib.           *)
(***************************************************************************)
\* C18: when create_config has gone through its list of k buttons, at its
\* save prompt, the mapping it built has exactly k entries, one for each
\* button, whatever notes won the votes.
C18_EveryButtonBound ==
    pc = "cc_save" =>
        /\ DictLen(new_config.keys) = Len(panelattack_keys)
        /\ \A b \in 1..Len(panelattack_keys) :
              \E k \in DOMAIN new_config.keys.val :
                  new_config.keys.val[k] = panelattack_keys[b]

\* C19: Silence is never a key of a mapping create_config makes: not of
\* the one it is building, not of the one it returns to main, not of the one
\* it saves to config.json; no vote has Silence for its result.
C19_SilenceNeverBound ==
    /\ ~DictHas(new_config.keys, Silence)
    /\ ~DictHas(config.keys, Silence)
    /\ ~DictHas(configfile.keys, Silence)
    /\ vote # NoVote => vote.mode # Silence

\* The first slot bound to B4 after the played sound changed twice, the
\* buffer holding B4 only: what was sampled before B4 was Silence.
C19_Witness ==
    /\ vote # NoVote
    /\ pos = 1
    /\ changes = 2
    /\ \A j \in 1..BufLen : vote.buf[j] = "B4"
    /\ DictKeys(new_config.keys) = <<"B4">>

====
